---------------------------- MODULE Spec2Model ----------------------------
(***************************************************************************)
(* Model of the chat companion page (src/app/src/app/page.tsx).            *)
(*                                                                         *)
(* A string the user types is a sequence of one-character strings, so that *)
(* trim(), toLowerCase() and the regular expressions of RESPONSE_BANK are  *)
(* computed character by character.  The companion's replies are opaque    *)
(* string constants: the code only compares them for equality.             *)
(*                                                                         *)
(* A Message is modelled by its sender and text.  Its id (createId) and    *)
(* its timestamp (Date.now) are read by the rendering code only and are    *)
(* left out.                                                               *)
(*                                                                         *)
(* React renders after every event handler and before the next event is    *)
(* dispatched, so every handler sees the committed state: an event handler *)
(* and a timer callback are one atomic action each.                        *)
(***************************************************************************)
EXTENDS Integers, Sequences, FiniteSets

(***************************************************************************)
(* Bounds of the model.                                                    *)
(***************************************************************************)
\* accepted submissions in one session
MaxExchanges == 4
\* length of the histories handed to generateResponse in SpecGen
MaxHistory == 7
\* Math.random() is rnd / RandDen for rnd in 0 .. RandDen-1
RandDen == 3

(***************************************************************************)
(* Characters.                                                             *)
(***************************************************************************)
UpperChars ==
    << "A", "B", "C", "D", "E", "F", "G", "H", "I", "J", "K", "L", "M",
       "N", "O", "P", "Q", "R", "S", "T", "U", "V", "W", "X", "Y", "Z" >>

LowerChars ==
    << "a", "b", "c", "d", "e", "f", "g", "h", "i", "j", "k", "l", "m",
       "n", "o", "p", "q", "r", "s", "t", "u", "v", "w", "x", "y", "z" >>

\* \w of a regular expression: [A-Za-z0-9_]
WordChars ==
    { UpperChars[k] : k \in 1..26 } \cup { LowerChars[k] : k \in 1..26 }
        \cup { "0", "1", "2", "3", "4", "5", "6", "7", "8", "9" } \cup { "_" }

\* what String.prototype.trim strips (the part of it that occurs here)
WhiteSpace == { " ", "\t", "\n", "\r" }

\* what "." of a regular expression does not match
LineTerminators == { "\n", "\r" }

UpperSet == { UpperChars[k] : k \in 1..26 }

LowerChar(c) ==
    IF c \in UpperSet
    THEN LowerChars[CHOOSE k \in 1..26 : UpperChars[k] = c]
    ELSE c

\* String.prototype.toLowerCase
toLowerCase(s) == [ i \in 1..Len(s) |-> LowerChar(s[i]) ]

\* String.prototype.trim
trim(s) ==
    LET keep == { i \in 1..Len(s) : s[i] \notin WhiteSpace }
    IN  IF keep = {} THEN << >>
        ELSE LET first == CHOOSE i \in keep : \A j \in keep : i <= j
                 last  == CHOOSE i \in keep : \A j \in keep : j <= i
             IN  SubSeq(s, first, last)

(***************************************************************************)
(* Regular expressions.  A position p in 1 .. Len(s)+1 is the gap before   *)
(* s[p].  Every expression of the code carries the flag i, so a literal is *)
(* compared with the lower-cased character.                                *)
(***************************************************************************)
IsWordAt(s, p) == p >= 1 /\ p <= Len(s) /\ s[p] \in WordChars

\* \b
WordBoundary(s, p) == IsWordAt(s, p - 1) # IsWordAt(s, p)

\* the literal w matches s from position p on
LitAt(s, p, w) ==
    /\ p + Len(w) - 1 <= Len(s)
    /\ \A k \in 1..Len(w) : LowerChar(s[p + k - 1]) = w[k]

\* /w/i.test(s)
Contains(s, w) == \E p \in 1..(Len(s) + 1) : LitAt(s, p, w)

\* /\b(w1|w2|...)\b/i.test(s)
WordRegex(s, alts) ==
    \E p \in 1..(Len(s) + 1) : \E w \in alts :
        /\ LitAt(s, p, w)
        /\ WordBoundary(s, p)
        /\ WordBoundary(s, p + Len(w))

\* /(^|\b)(hi|hello|hey)(\b|!|.|,)/i.test(s)
GreetingRegex(s) ==
    \E p \in 1..(Len(s) + 1) :
      \E w \in { <<"h", "i">>, <<"h", "e", "l", "l", "o">>, <<"h", "e", "y">> } :
        LET q == p + Len(w)
        IN  /\ LitAt(s, p, w)
            /\ (p = 1 \/ WordBoundary(s, p))
            /\ \/ WordBoundary(s, q)
               \/ (q <= Len(s) /\ s[q] = "!")
               \/ (q <= Len(s) /\ s[q] \notin LineTerminators)
               \/ (q <= Len(s) /\ s[q] = ",")

(***************************************************************************)
(* The data of the page.                                                   *)
(***************************************************************************)
BOT_INTRO ==
    << "Hey there! I'm your cozy chat companion.",
       "Tell me what's on your mind or how your day's been going.",
       "I'm here to listen, celebrate the wins, and sit with the lows." >>

\* the replies of the entries of RESPONSE_BANK, in bank order (the dash of the
\* fifth entry is written in ASCII)
RESPONSE_BANK ==
    << [ replies |-> << "Hi! What's the vibe today?",
                        "Hello hello! How's it going?",
                        "Hey there! Anything fun happening?" >> ],
       [ replies |-> << "Anytime! I'm just happy to be here with you.",
                        "You're super welcome. Want to keep chatting?" >> ],
       [ replies |-> << "I'm sorry it's feeling heavy right now. Want to talk it through?",
                        "That sounds rough. I'm here for whatever you need to unpack." >> ],
       [ replies |-> << "Love that energy! What made it so good?",
                        "That sounds awesome. Share the highlight with me!" >> ],
       [ replies |-> << "Work can be a ride. What's happening on your plate?",
                        "Let it all out - what's the latest from the grind?" >> ],
       [ replies |-> << "I'm listening. Tell me more.",
                        "Got it. Where should we take this next?",
                        "Mhmm, I'm following along. What's the next chapter?" >> ] >>

\* the test of entry i of RESPONSE_BANK
BankTest(i, input) ==
    CASE i = 1 -> GreetingRegex(input)
      [] i = 2 -> WordRegex(input,
                    { <<"t", "h", "a", "n", "k", "s">>,
                      <<"t", "h", "a", "n", "k", " ", "y", "o", "u">>,
                      <<"a", "p", "p", "r", "e", "c", "i", "a", "t", "e">> })
      [] i = 3 -> WordRegex(input,
                    { <<"s", "a", "d">>, <<"d", "o", "w", "n">>,
                      <<"b", "l", "u", "e">>, <<"t", "i", "r", "e", "d">>,
                      <<"e", "x", "h", "a", "u", "s", "t", "e", "d">> })
      [] i = 4 -> WordRegex(input,
                    { <<"h", "a", "p", "p", "y">>,
                      <<"e", "x", "c", "i", "t", "e", "d">>,
                      <<"g", "r", "e", "a", "t">>,
                      <<"a", "w", "e", "s", "o", "m", "e">>,
                      <<"a", "m", "a", "z", "i", "n", "g">> })
      [] i = 5 -> WordRegex(input,
                    { <<"w", "o", "r", "k">>, <<"j", "o", "b">>,
                      <<"p", "r", "o", "j", "e", "c", "t">>,
                      <<"d", "e", "a", "d", "l", "i", "n", "e">> })
      [] OTHER -> TRUE

LengthGuardReply ==
    "We've covered a bunch! Anything else you'd like to explore together?"

EmptyRepliesReply == "I'm here and listening. Tell me more about that."

(***************************************************************************)
(* generateResponse(input, history), with the value of Math.random() given *)
(* as rnd / RandDen.                                                       *)
(***************************************************************************)
\* RESPONSE_BANK.find(entry => entry.test(lowerInput)): an index, 0 for undefined
RECURSIVE FindFrom(_, _)
FindFrom(i, lowerInput) ==
    IF i > Len(RESPONSE_BANK) THEN 0
    ELSE IF BankTest(i, lowerInput) THEN i
    ELSE FindFrom(i + 1, lowerInput)

\* findLast in place of find
FindMatchedLast(lowerInput) ==
    LET hits == { i \in 1..Len(RESPONSE_BANK) : BankTest(i, lowerInput) }
    IN  IF hits = {} THEN 0
        ELSE CHOOSE i \in hits : \A j \in hits : j <= i

FindMatched(lowerInput) == FindFrom(1, lowerInput)

\* history.filter(m => m.sender === "companion").map(m => m.text), as a set
UsedResponses(history) ==
    { history[i].text :
        i \in { j \in 1..Len(history) : history[j].sender = "companion" } }

\* the body of generateResponse with its three decisions as parameters:
\* limit, the history length the guard needs to exceed; exempt, whether
\* "thank" switches the guard off; fresh, whether an unused reply is preferred;
\* onExhausted, what is returned when none is unused ("" for the random one)
GenerateVariant(input, history, rnd, limit, exempt, preferFresh, onExhausted) ==
    LET lowerInput == toLowerCase(input)
    IN  IF /\ Len(history) > limit
           /\ ~(exempt /\ Contains(lowerInput, <<"t", "h", "a", "n", "k">>))
        THEN LengthGuardReply
        ELSE
          LET matched == FindMatched(lowerInput)
              replies == RESPONSE_BANK[matched].replies
              usedResponses == UsedResponses(history)
              fresh == { k \in 1..Len(replies) : replies[k] \notin usedResponses }
          IN  IF preferFresh /\ fresh # {}
              THEN replies[CHOOSE k \in fresh : \A j \in fresh : k <= j]
              ELSE IF onExhausted # "" /\ fresh = {}
                   THEN onExhausted
                   ELSE replies[((rnd * Len(replies)) \div RandDen) + 1]

\* history.length > 7 in place of > 6
generateResponseLimit7(input, history, rnd) ==
    GenerateVariant(input, history, rnd, 7, TRUE, TRUE, "")

\* the guard without its "thank" exemption
generateResponseNoExemption(input, history, rnd) ==
    GenerateVariant(input, history, rnd, 6, FALSE, TRUE, "")

\* always the random reply, used or not
generateResponseNoFresh(input, history, rnd) ==
    GenerateVariant(input, history, rnd, 6, TRUE, FALSE, "")

\* the fixed acknowledgement once every reply is used
generateResponseExhaustedGeneric(input, history, rnd) ==
    GenerateVariant(input, history, rnd, 6, TRUE, TRUE, EmptyRepliesReply)

\* nothing to fall back on once every reply is used: the empty string
generateResponseExhaustedEmpty(input, history, rnd) ==
    LET reply == GenerateVariant(input, history, rnd, 6, TRUE, TRUE,
                                 EmptyRepliesReply)
    IN  IF reply = EmptyRepliesReply THEN "" ELSE reply

\* history.length > 5 in place of > 6
generateResponseLimit5(input, history, rnd) ==
    GenerateVariant(input, history, rnd, 5, TRUE, TRUE, "")

generateResponse(input, history, rnd) ==
    LET lowerInput == toLowerCase(input)
    IN  IF Len(history) > 6 /\ ~Contains(lowerInput, <<"t", "h", "a", "n", "k">>)
        THEN LengthGuardReply
        ELSE
          LET matched == FindMatched(lowerInput)
              replies ==
                  IF matched # 0 THEN RESPONSE_BANK[matched].replies
                  ELSE IF Len(RESPONSE_BANK) > 0
                       THEN RESPONSE_BANK[Len(RESPONSE_BANK)].replies
                       ELSE << >>
              usedResponses == UsedResponses(history)
              fresh == { k \in 1..Len(replies) : replies[k] \notin usedResponses }
          IN  IF Len(replies) = 0 THEN EmptyRepliesReply
              ELSE IF fresh # {}
                   THEN replies[CHOOSE k \in fresh : \A j \in fresh : k <= j]
                   ELSE replies[((rnd * Len(replies)) \div RandDen) + 1]

\* Math.max(2400, Math.min(800, ...)): the two bounds exchanged
companionTypingDelaySwapped(input) ==
    LET scaled == Len(input) * 45
        atMost == IF scaled < 800 THEN scaled ELSE 800
    IN  IF atMost > 2400 THEN atMost ELSE 2400

\* companionTypingDelay
companionTypingDelay(input) ==
    LET scaled == Len(input) * 45
        atLeast == IF scaled > 800 THEN scaled ELSE 800
    IN  IF atLeast < 2400 THEN atLeast ELSE 2400

(***************************************************************************)
(* The state of Home, and the inputs and result of a call of               *)
(* generateResponse on its own (SpecGen).                                  *)
(***************************************************************************)
VARIABLES
    messages,           \* useState<Message[]>: the History
    pendingMessage,     \* useState(""): the input buffer
    isCompanionTyping,  \* useState(false): the turn state, TRUE = AwaitingReply
    timers,             \* the setTimeout callbacks not yet run, oldest first
    event,              \* observer: the kind of the last event handled
    origin,             \* observer: per message, the submission it belongs to
    accepted,           \* observer: submissions accepted so far
    completed,          \* observer: companion replies delivered so far
    gInput,             \* SpecGen: the utterance
    gHistory,           \* SpecGen: the history
    gReply,             \* SpecGen: the string returned
    gPc,                \* SpecGen: "build" before the call, "done" after it
    dInput,             \* SpecDelay: the utterance
    dDelay,             \* SpecDelay: the delay returned for it, -1 before the call
    dPrev               \* SpecDelay: the delay returned for the utterance one shorter

homeVars ==
    << messages, pendingMessage, isCompanionTyping, timers, event, origin,
       accepted, completed >>

genVars == << gInput, gHistory, gReply, gPc >>

delayVars == << dInput, dDelay, dPrev >>

vars ==
    << messages, pendingMessage, isCompanionTyping, timers, event, origin,
       accepted, completed, gInput, gHistory, gReply, gPc, dInput, dDelay,
       dPrev >>

(***************************************************************************)
(* What the user may type into the textarea.                               *)
(***************************************************************************)
TextEmpty == << >>
TextBlank == << " ", "\n" >>
TextHi == << " ", "H", "i", " " >>
TextThanksALot == << "t", "h", "a", "n", "k", "s", " ", "a", " ", "l", "o", "t" >>
TextTHANK == << "T", "H", "A", "N", "K" >>
TextLong ==
    << "i", " ", "a", "m", " ", "s", "o", " ", "e", "x", "h", "a", "u", "s",
       "t", "e", "d", " ", "t", "o", "d", "a", "y" >>

SessionInputs ==
    { TextEmpty, TextBlank, TextHi, TextThanksALot, TextTHANK, TextLong }

RandomValues == 0..(RandDen - 1)

(***************************************************************************)
(* Home: the initial state.                                                *)
(***************************************************************************)
HomeInit ==
    /\ messages = [ index \in 1..Len(BOT_INTRO) |->
                      [ sender |-> "companion", text |-> BOT_INTRO[index] ] ]
    /\ pendingMessage = << >>
    /\ isCompanionTyping = FALSE
    /\ timers = << >>
    /\ event = "init"
    /\ origin = [ index \in 1..Len(BOT_INTRO) |-> 0 ]
    /\ accepted = 0
    /\ completed = 0

GenIdle ==
    /\ gInput = << >>
    /\ gHistory = << >>
    /\ gReply = ""
    /\ gPc = "idle"

DelayIdle ==
    /\ dInput = << >>
    /\ dDelay = -1
    /\ dPrev = -1

Init == HomeInit /\ GenIdle /\ DelayIdle

(***************************************************************************)
(* onChange of the textarea: setPendingMessage(event.target.value).        *)
(***************************************************************************)
\* onChange that also clears the pending timer
handleChangeClearsTimer(value) ==
    /\ pendingMessage' = value
    /\ timers' = << >>
    /\ event' = "change"
    /\ UNCHANGED << messages, isCompanionTyping, origin, accepted, completed >>
    /\ UNCHANGED << genVars, delayVars >>

handleChange(value) ==
    /\ pendingMessage' = value
    /\ event' = "change"
    /\ UNCHANGED << messages, isCompanionTyping, timers, origin, accepted,
                    completed >>
    /\ UNCHANGED << genVars, delayVars >>

(***************************************************************************)
(* handleSubmit: onSubmit of the form and Enter in the textarea.           *)
(***************************************************************************)
\* the early return: only event.preventDefault() has run
RejectSubmit ==
    /\ event' = "submit"
    /\ UNCHANGED << messages, pendingMessage, isCompanionTyping, timers,
                    origin, accepted, completed >>
    /\ UNCHANGED << genVars, delayVars >>

\* the rest of the handler: the user message, the reply, the timer
AcceptSubmit(trimmed) ==
    /\ accepted < MaxExchanges
    /\ \E rnd \in RandomValues :
         LET userMessage == [ sender |-> "user", text |-> trimmed ]
             reply == generateResponse(trimmed, Append(messages, userMessage), rnd)
         IN  /\ messages' = Append(messages, userMessage)
             /\ timers' = Append(timers,
                    [ reply |-> reply,
                      delay |-> companionTypingDelay(trimmed),
                      seq   |-> accepted + 1 ])
    /\ pendingMessage' = << >>
    /\ isCompanionTyping' = TRUE
    /\ origin' = Append(origin, accepted + 1)
    /\ accepted' = accepted + 1
    /\ event' = "submit"
    /\ UNCHANGED completed
    /\ UNCHANGED << genVars, delayVars >>

\* handleSubmit without the isCompanionTyping test
handleSubmitNoTypingGuard ==
    LET trimmed == trim(pendingMessage)
    IN  IF trimmed = << >>
        THEN RejectSubmit
        ELSE AcceptSubmit(trimmed)

\* handleSubmit testing the buffer as typed, without trim()
handleSubmitNoTrim ==
    IF pendingMessage = << >> \/ isCompanionTyping
    THEN RejectSubmit
    ELSE AcceptSubmit(pendingMessage)

handleSubmit ==
    LET trimmed == trim(pendingMessage)
    IN  IF trimmed = << >> \/ isCompanionTyping
        THEN RejectSubmit
        ELSE AcceptSubmit(trimmed)

(***************************************************************************)
(* The callback given to setTimeout.  Timers run in the order of their     *)
(* expiry: a timer set earlier with a delay that is not longer runs first. *)
(***************************************************************************)
\* the callback writing [...messages, reply] with the messages of the render
\* that scheduled it, which lacks the user message
TimerCallbackStaleClosure(i) ==
    /\ i \in 1..Len(timers)
    /\ \A j \in 1..(i - 1) : timers[j].delay > timers[i].delay
    /\ messages' = Append(SubSeq(messages, 1, Len(messages) - 1),
                      [ sender |-> "companion", text |-> timers[i].reply ])
    /\ isCompanionTyping' = FALSE
    /\ timers' = SubSeq(timers, 1, i - 1) \o SubSeq(timers, i + 1, Len(timers))
    /\ origin' = Append(SubSeq(origin, 1, Len(origin) - 1), timers[i].seq)
    /\ completed' = completed + 1
    /\ event' = "timer"
    /\ UNCHANGED << pendingMessage, accepted >>
    /\ UNCHANGED << genVars, delayVars >>

\* the callback computing the reply when it runs, from the buffer and the
\* messages of that moment
TimerCallbackRecompute(i) ==
    /\ i \in 1..Len(timers)
    /\ \A j \in 1..(i - 1) : timers[j].delay > timers[i].delay
    /\ \E rnd \in RandomValues :
         messages' = Append(messages,
            [ sender |-> "companion",
              text |-> generateResponse(trim(pendingMessage), messages, rnd) ])
    /\ isCompanionTyping' = FALSE
    /\ timers' = SubSeq(timers, 1, i - 1) \o SubSeq(timers, i + 1, Len(timers))
    /\ origin' = Append(origin, timers[i].seq)
    /\ completed' = completed + 1
    /\ event' = "timer"
    /\ UNCHANGED << pendingMessage, accepted >>
    /\ UNCHANGED << genVars, delayVars >>

\* the callback without setIsCompanionTyping(false)
TimerCallbackKeepsTyping(i) ==
    /\ i \in 1..Len(timers)
    /\ \A j \in 1..(i - 1) : timers[j].delay > timers[i].delay
    /\ messages' = Append(messages,
                      [ sender |-> "companion", text |-> timers[i].reply ])
    /\ timers' = SubSeq(timers, 1, i - 1) \o SubSeq(timers, i + 1, Len(timers))
    /\ origin' = Append(origin, timers[i].seq)
    /\ completed' = completed + 1
    /\ event' = "timer"
    /\ UNCHANGED << pendingMessage, isCompanionTyping, accepted >>
    /\ UNCHANGED << genVars, delayVars >>

TimerCallback(i) ==
    /\ i \in 1..Len(timers)
    /\ \A j \in 1..(i - 1) : timers[j].delay > timers[i].delay
    /\ messages' = Append(messages,
                      [ sender |-> "companion", text |-> timers[i].reply ])
    /\ isCompanionTyping' = FALSE
    /\ timers' = SubSeq(timers, 1, i - 1) \o SubSeq(timers, i + 1, Len(timers))
    /\ origin' = Append(origin, timers[i].seq)
    /\ completed' = completed + 1
    /\ event' = "timer"
    /\ UNCHANGED << pendingMessage, accepted >>
    /\ UNCHANGED << genVars, delayVars >>

Change == \E value \in SessionInputs : handleChange(value)

Timeout == \E i \in 1..Len(timers) : TimerCallback(i)

Next ==
    \/ Change
    \/ handleSubmit
    \/ Timeout

Spec == Init /\ [][Next]_vars

\* the browser runs a callback given to setTimeout once its delay has elapsed
FairSpec == Spec /\ WF_vars(Timeout)

(***************************************************************************)
(* generateResponse on its own: a history is built message by message from *)
(* HistoryPool, then the function is called once with an utterance of      *)
(* Utterances and a value of the random source.                            *)
(***************************************************************************)
TextThankYou == << "T", "h", "a", "n", "k", " ", "y", "o", "u" >>
TextAppreciate ==
    << "a", "p", "p", "r", "e", "c", "i", "a", "t", "e", " ", "i", "t" >>
TextHistory == << "h", "i", "s", "t", "o", "r", "y" >>
TextThis == << "t", "h", "i", "s" >>
TextHiThanks == << "h", "i", " ", "t", "h", "a", "n", "k", "s" >>
TextSadAndHappy ==
    << "s", "a", "d", " ", "a", "n", "d", " ", "h", "a", "p", "p", "y" >>
TextMyJob == << "m", "y", " ", "j", "o", "b" >>
TextOk == << "o", "k" >>
TextHello == << "h", "e", "l", "l", "o" >>

Utterances ==
    SessionInputs \cup
    { TextThankYou, TextAppreciate, TextHistory, TextThis, TextHiThanks,
      TextSadAndHappy, TextMyJob, TextOk, TextHello }

HistoryPool ==
    << [ sender |-> "user", text |-> TextOk ],
       [ sender |-> "companion", text |-> RESPONSE_BANK[2].replies[1] ],
       [ sender |-> "companion", text |-> RESPONSE_BANK[2].replies[2] ] >>

GenInit ==
    /\ gInput = << >>
    /\ gHistory = << >>
    /\ gReply = ""
    /\ gPc = "build"

InitGen == HomeInit /\ GenInit /\ DelayIdle

GenAppend(message) ==
    /\ gPc = "build"
    /\ Len(gHistory) < MaxHistory
    /\ gHistory' = Append(gHistory, message)
    /\ UNCHANGED << gInput, gReply, gPc >>
    /\ UNCHANGED << homeVars, delayVars >>

GenCall(input, rnd) ==
    /\ gPc = "build"
    /\ gInput' = input
    /\ gReply' = generateResponse(input, gHistory, rnd)
    /\ gPc' = "done"
    /\ UNCHANGED gHistory
    /\ UNCHANGED << homeVars, delayVars >>

GenBuild == \E k \in 1..Len(HistoryPool) : GenAppend(HistoryPool[k])

GenRun == \E input \in Utterances : \E rnd \in RandomValues : GenCall(input, rnd)

NextGen ==
    \/ GenBuild
    \/ GenRun

SpecGen == InitGen /\ [][NextGen]_vars

(***************************************************************************)
(* companionTypingDelay on its own: it is called on an utterance, the      *)
(* utterance grows by one character, and it is called again.  Only the     *)
(* length of the utterance is read.                                        *)
(***************************************************************************)
\* the longest utterance
MaxUtterance == 100

InitDelay == HomeInit /\ GenIdle /\ DelayIdle

DelayCall ==
    /\ dDelay = -1
    /\ dDelay' = companionTypingDelay(dInput)
    /\ UNCHANGED << dInput, dPrev >>
    /\ UNCHANGED << homeVars, genVars >>

DelayGrow ==
    /\ dDelay # -1
    /\ Len(dInput) < MaxUtterance
    /\ dInput' = Append(dInput, "a")
    /\ dPrev' = dDelay
    /\ dDelay' = -1
    /\ UNCHANGED << homeVars, genVars >>

NextDelay ==
    \/ DelayCall
    \/ DelayGrow

SpecDelay == InitDelay /\ [][NextDelay]_vars

(***************************************************************************)
(* Vocabulary of the properties.                                           *)
(***************************************************************************)
Thank == << "t", "h", "a", "n", "k" >>

\* the utterance contains "thank" in some letter case
SaysThank(utterance) == Contains(toLowerCase(utterance), Thank)

\* the first entry of the bank, in bank order, whose test accepts the
\* lower-cased utterance
FirstMatchingRule(utterance) ==
    CHOOSE i \in 1..Len(RESPONSE_BANK) :
        /\ BankTest(i, toLowerCase(utterance))
        /\ \A j \in 1..(i - 1) : ~BankTest(j, toLowerCase(utterance))

ReplySet(i) ==
    { RESPONSE_BANK[i].replies[k] : k \in 1..Len(RESPONSE_BANK[i].replies) }

\* the texts of the companion messages of a history
CompanionTexts(history) ==
    { history[i].text :
        i \in { j \in 1..Len(history) : history[j].sender = "companion" } }

\* the indices of the replies of entry i that no companion message of the
\* history carries
UnusedIndices(i, history) ==
    { k \in 1..Len(RESPONSE_BANK[i].replies) :
        RESPONSE_BANK[i].replies[k] \notin CompanionTexts(history) }

GuardFires(utterance, history) == Len(history) >= 7 /\ ~SaysThank(utterance)

Called == gPc = "done"

\* the step is a submission the claims call accepted
AcceptedStep ==
    /\ event' = "submit"
    /\ trim(pendingMessage) # << >>
    /\ ~isCompanionTyping

LastMessage == messages[Len(messages)]

(***************************************************************************)
(* C1: at most one companion reply is pending at any time, and a           *)
(* submission made while a reply is pending appends no message and         *)
(* schedules no timer.                                                     *)
(***************************************************************************)
C1_OneReplyPending ==
    /\ [](Len(timers) <= 1)
    /\ [][ (event' = "submit" /\ isCompanionTyping)
             => (messages' = messages /\ timers' = timers) ]_vars

\* a submission of non-blank text was rejected while a reply was pending
C1_Witness ==
    /\ event = "submit"
    /\ isCompanionTyping
    /\ Len(timers) = 1
    /\ trim(pendingMessage) # << >>

(***************************************************************************)
(* C2: the companion message of a submission stands in the History after   *)
(* the user message of that submission and before the companion message of *)
(* every later submission.                                                 *)
(***************************************************************************)
C2_ReplyOrder ==
    \A i \in 1..Len(messages) :
        (messages[i].sender = "companion" /\ origin[i] > 0) =>
            /\ \E j \in 1..(i - 1) :
                   messages[j].sender = "user" /\ origin[j] = origin[i]
            /\ \A j \in 1..Len(messages) :
                   (messages[j].sender = "companion" /\ origin[j] > origin[i])
                       => i < j

\* two submissions have been answered
C2_Witness ==
    /\ completed >= 2
    /\ \E i, j \in 1..Len(messages) :
          /\ messages[i].sender = "companion" /\ origin[i] = 1
          /\ messages[j].sender = "companion" /\ origin[j] = 2

(***************************************************************************)
(* C3: an accepted submission appends one message and the timer's callback *)
(* one, every other step none; with k replies delivered and none pending   *)
(* the History holds the three introductions and 2k messages more.         *)
(***************************************************************************)
C3_TwoPerExchange ==
    /\ []( timers = << >> =>
             Len(messages) = Len(BOT_INTRO) + 2 * completed )
    /\ [][ Len(messages') =
             Len(messages) +
               (IF AcceptedStep \/ event' = "timer" THEN 1 ELSE 0) ]_vars

\* two exchanges are complete, and a submission was rejected after them
C3_Witness ==
    /\ completed = 2
    /\ timers = << >>
    /\ event = "submit"
    /\ pendingMessage = TextBlank
    /\ Len(messages) = 7

(***************************************************************************)
(* C4: when the length guard does not fire and the matched rule has a      *)
(* reply that no companion message of the history carries, generateResponse*)
(* returns the first such reply in the rule's order, which is not a used   *)
(* one.                                                                    *)
(***************************************************************************)
C4_AntiRepetition ==
    (Called /\ ~GuardFires(gInput, gHistory)) =>
        LET rule == FirstMatchingRule(gInput)
            unused == UnusedIndices(rule, gHistory)
        IN  unused # {} =>
              /\ gReply =
                   RESPONSE_BANK[rule].replies[
                       CHOOSE k \in unused : \A j \in unused : k <= j]
              /\ gReply \notin CompanionTexts(gHistory)

\* the first gratitude reply is used, the second is returned
C4_Witness ==
    /\ Called
    /\ gInput = TextThanksALot
    /\ CompanionTexts(gHistory) = { RESPONSE_BANK[2].replies[1] }
    /\ gReply = RESPONSE_BANK[2].replies[2]

(***************************************************************************)
(* C5: with 7 or more messages in the history and no "thank" (in any       *)
(* letter case) in the utterance, generateResponse returns the length      *)
(* guard's message, whichever entries of the bank the utterance matches.   *)
(***************************************************************************)
C5_LengthGuard ==
    (Called /\ Len(gHistory) >= 7 /\ ~SaysThank(gInput)) =>
        gReply = LengthGuardReply

\* "hello" matches the greeting entry and still gets the guard's message
C5_Witness ==
    /\ Called
    /\ Len(gHistory) = 7
    /\ gInput = TextHello
    /\ BankTest(1, toLowerCase(gInput))
    /\ gReply = LengthGuardReply

(***************************************************************************)
(* C6: with 7 or more messages in the history and "thank" in the utterance *)
(* in any letter case, generateResponse does not return the length guard's *)
(* message but a reply of the first matching entry; "thanks a lot" gets a  *)
(* reply of the gratitude entry.                                           *)
(***************************************************************************)
C6_ThankExempt ==
    (Called /\ Len(gHistory) >= 7 /\ SaysThank(gInput)) =>
        /\ gReply # LengthGuardReply
        /\ gReply \in ReplySet(FirstMatchingRule(gInput))
        /\ gInput = TextThanksALot => gReply \in ReplySet(2)

\* upper-case "THANK" after 7 messages is answered from the catch-all entry
C6_Witness ==
    /\ Called
    /\ Len(gHistory) >= 7
    /\ gInput = TextTHANK
    /\ gReply \in ReplySet(6)

(***************************************************************************)
(* C7: with fewer than 7 messages in the history and no "thank" in the     *)
(* utterance, the reply belongs to the first entry of the bank, in bank    *)
(* order, whose test accepts the lower-cased utterance; "hello" with an    *)
(* empty history gets a greeting reply.                                    *)
(***************************************************************************)
C7_FirstMatchWins ==
    (Called /\ Len(gHistory) < 7 /\ ~SaysThank(gInput)) =>
        /\ gReply \in ReplySet(FirstMatchingRule(gInput))
        /\ (gInput = TextHello /\ gHistory = << >>) => gReply \in ReplySet(1)

\* "sad and happy" matches the third and the fourth entry; the third answers
C7_Witness ==
    /\ Called
    /\ Len(gHistory) < 7
    /\ gInput = TextSadAndHappy
    /\ BankTest(3, toLowerCase(gInput))
    /\ BankTest(4, toLowerCase(gInput))
    /\ gReply \in ReplySet(3)

(***************************************************************************)
(* C8: when a rule is matched (the length guard does not fire) and every   *)
(* reply of it is the text of a companion message of the history, the      *)
(* reply returned is one of that rule's replies, whatever the random       *)
(* source gives.                                                           *)
(***************************************************************************)
C8_ExhaustionFallback ==
    (Called /\ ~GuardFires(gInput, gHistory)) =>
        LET rule == FirstMatchingRule(gInput)
        IN  UnusedIndices(rule, gHistory) = {} => gReply \in ReplySet(rule)

\* both gratitude replies are used and the random source picks the second
C8_Witness ==
    /\ Called
    /\ SaysThank(gInput)
    /\ FirstMatchingRule(gInput) = 2
    /\ ReplySet(2) \subseteq CompanionTexts(gHistory)
    /\ gReply = RESPONSE_BANK[2].replies[2]

(***************************************************************************)
(* C9: a submission whose buffer is empty or holds white space only        *)
(* changes nothing, whether a reply is pending or not: no message, no      *)
(* change of the typing flag, no timer, the buffer as it was; and the      *)
(* handler can always run on such a buffer.                                *)
(***************************************************************************)
C9_BlankRejected ==
    /\ [](trim(pendingMessage) = << >> => ENABLED handleSubmit)
    /\ [][ (event' = "submit" /\ trim(pendingMessage) = << >>)
             => /\ messages' = messages
                /\ isCompanionTyping' = isCompanionTyping
                /\ timers' = timers
                /\ pendingMessage' = pendingMessage ]_vars

\* a buffer of white space was submitted while no reply was pending
C9_Witness ==
    /\ event = "submit"
    /\ pendingMessage = TextBlank
    /\ ~isCompanionTyping
    /\ timers = << >>

(***************************************************************************)
(* C10: every accepted submission is answered: while the reply of the n-th *)
(* submission is awaited, the page eventually is idle again with that      *)
(* reply as the last message; and no step takes a timer away without       *)
(* appending its reply.                                                    *)
(***************************************************************************)
C10_ExchangeCompletes ==
    /\ \A n \in 1..MaxExchanges :
          (isCompanionTyping /\ accepted = n) ~>
              /\ ~isCompanionTyping
              /\ completed = n
              /\ LastMessage.sender = "companion"
              /\ origin[Len(origin)] = n
    /\ [][ timers # << >> =>
             \/ timers' = timers
             \/ /\ Len(timers') = Len(timers) + 1
                /\ SubSeq(timers', 1, Len(timers)) = timers
             \/ \E i \in 1..Len(timers) :
                  /\ timers' = SubSeq(timers, 1, i - 1)
                                 \o SubSeq(timers, i + 1, Len(timers))
                  /\ messages' = Append(messages,
                        [ sender |-> "companion", text |-> timers[i].reply ]) ]_vars

\* a reply has been delivered and the page is idle
C10_Witness ==
    /\ event = "timer"
    /\ ~isCompanionTyping
    /\ completed = accepted
    /\ completed >= 1
    /\ LastMessage.sender = "companion"

(***************************************************************************)
(* C11: the text of the companion message of a submission is a value of    *)
(* generateResponse for the submitted text and the History as it stood at  *)
(* the submission, the user message included; it is fixed while the timer  *)
(* is pending, and the callback appends exactly it.                        *)
(***************************************************************************)
\* the replies generateResponse can give to the n-th submission
RepliesAtSubmission(n) ==
    LET j == CHOOSE k \in 1..Len(messages) :
                 messages[k].sender = "user" /\ origin[k] = n
    IN  { generateResponse(messages[j].text, SubSeq(messages, 1, j), rnd) :
            rnd \in RandomValues }

C11_ReplyFixedAtSubmission ==
    /\ [](\A i \in 1..Len(messages) :
            (messages[i].sender = "companion" /\ origin[i] > 0) =>
                messages[i].text \in RepliesAtSubmission(origin[i]))
    /\ [](\A k \in 1..Len(timers) :
            timers[k].reply \in RepliesAtSubmission(timers[k].seq))
    /\ [][ event' = "timer" =>
             \E k \in 1..Len(timers) :
                 messages' = Append(messages,
                    [ sender |-> "companion", text |-> timers[k].reply ]) ]_vars
    /\ [][ (timers # << >> /\ event' # "timer") => timers' = timers ]_vars

\* the user typed during the delay, and the reply to " Hi " was delivered
C11_Witness ==
    /\ event = "timer"
    /\ completed = 1
    /\ pendingMessage = TextLong
    /\ messages[Len(messages) - 1].text = trim(TextHi)
    /\ LastMessage.text = RESPONSE_BANK[1].replies[1]

(***************************************************************************)
(* C12: the typing delay of an utterance is its length times 45, raised to *)
(* 800 and cut at 2400: always within 800 .. 2400, 800 for the empty       *)
(* utterance, 2400 for one of 100 characters, and never smaller than the   *)
(* delay of the utterance one character shorter.                           *)
(***************************************************************************)
C12_DelayClamped ==
    dDelay # -1 =>
        LET n == Len(dInput) * 45
        IN  /\ dDelay = (IF n < 800 THEN 800 ELSE IF n > 2400 THEN 2400 ELSE n)
            /\ dDelay >= 800
            /\ dDelay <= 2400
            /\ Len(dInput) = 0 => dDelay = 800
            /\ Len(dInput) = 100 => dDelay = 2400
            /\ dPrev # -1 => dPrev <= dDelay

\* between the bounds: 30 characters give 1350 after 29 gave 1305
C12_Witness ==
    /\ Len(dInput) = 30
    /\ dDelay = 1350
    /\ dPrev = 1305

(***************************************************************************)
(* C13: for every utterance that is not empty and every history,           *)
(* generateResponse returns a string that is not empty: the last entry of  *)
(* the bank accepts every utterance and no entry has an empty reply list.  *)
(***************************************************************************)
C13_Total ==
    (Called /\ gInput # << >>) =>
        /\ gReply # ""
        /\ gReply \in
             UNION { ReplySet(i) : i \in 1..Len(RESPONSE_BANK) }
                \cup { LengthGuardReply, EmptyRepliesReply }
        /\ BankTest(Len(RESPONSE_BANK), toLowerCase(gInput))
        /\ \A i \in 1..Len(RESPONSE_BANK) : Len(RESPONSE_BANK[i].replies) > 0

\* an utterance of white space is answered from the catch-all entry
C13_Witness ==
    /\ Called
    /\ gInput = TextBlank
    /\ gReply \in ReplySet(6)

(***************************************************************************)
(* C14: when the length guard fires, or the matched rule still has a reply *)
(* that no companion message carries, generateResponse returns the same    *)
(* string for every value of the random source: a second call with the     *)
(* same utterance and history returns what the first returned.             *)
(***************************************************************************)
C14_Deterministic ==
    ( /\ Called
      /\ \/ GuardFires(gInput, gHistory)
         \/ UnusedIndices(FirstMatchingRule(gInput), gHistory) # {} ) =>
        \A rnd \in RandomValues :
            generateResponse(gInput, gHistory, rnd) = gReply

\* a long history, "hi thanks": the guard is off and a greeting is unused
C14_Witness ==
    /\ Called
    /\ Len(gHistory) = 7
    /\ gInput = TextHiThanks
    /\ ~GuardFires(gInput, gHistory)
    /\ gReply = RESPONSE_BANK[1].replies[1]

(***************************************************************************)
(* C15: the History only grows at its end: in every step the History       *)
(* before is a prefix of the History after, and an accepted submission,    *)
(* the step that calls generateResponse, leaves it as it was plus the user *)
(* message.                                                                *)
(***************************************************************************)
\* the same sender and the same text
SameMessage(a, b) == a.sender = b.sender /\ a.text = b.text

C15_AppendOnly ==
    [][ /\ Len(messages') >= Len(messages)
        /\ \A i \in 1..Len(messages) : SameMessage(messages'[i], messages[i])
        /\ AcceptedStep =>
             /\ Len(messages') = Len(messages) + 1
             /\ SameMessage(messages'[Len(messages')],
                    [ sender |-> "user", text |-> trim(pendingMessage) ]) ]_vars

\* a second submission was accepted after a delivered reply and a rejection
C15_Witness ==
    /\ completed = 1
    /\ accepted = 2
    /\ isCompanionTyping
    /\ Len(messages) = 6
    /\ pendingMessage = TextBlank

(***************************************************************************)
(* C16: in a session the reply to the first and to the second accepted     *)
(* submission is never the length guard's message, and the reply to the    *)
(* third and to every later one whose text has no "thank" is.              *)
(***************************************************************************)
\* the text of the n-th accepted submission
SubmittedText(n) ==
    messages[CHOOSE k \in 1..Len(messages) :
                 messages[k].sender = "user" /\ origin[k] = n].text

GuardAfterTwo(n, reply) ==
    /\ n <= 2 => reply # LengthGuardReply
    /\ (n >= 3 /\ ~SaysThank(SubmittedText(n))) => reply = LengthGuardReply

C16_GuardFromThird ==
    /\ \A i \in 1..Len(messages) :
          (messages[i].sender = "companion" /\ origin[i] > 0) =>
              GuardAfterTwo(origin[i], messages[i].text)
    /\ \A k \in 1..Len(timers) :
          GuardAfterTwo(timers[k].seq, timers[k].reply)

\* four exchanges: the second reply is a greeting, the third and fourth the guard
C16_Witness ==
    /\ completed = 4
    /\ \E i, j, k \in 1..Len(messages) :
          /\ origin[i] = 2 /\ messages[i].sender = "companion"
          /\ messages[i].text \in ReplySet(1)
          /\ origin[j] = 3 /\ messages[j].sender = "companion"
          /\ messages[j].text = LengthGuardReply
          /\ origin[k] = 4 /\ messages[k].sender = "companion"
          /\ messages[k].text = LengthGuardReply

C18_FlagTimerLastSender ==
    /\ isCompanionTyping <=> Len(timers) = 1
    /\ Len(timers) = 1 <=> LastMessage.sender = "user"
    /\ ~isCompanionTyping =>
          (timers = << >> /\ LastMessage.sender = "companion")

\* the second submission is awaiting its reply
C18_Witness ==
    /\ isCompanionTyping
    /\ Len(timers) = 1
    /\ LastMessage.sender = "user"
    /\ completed = 1
    /\ accepted = 2

(***************************************************************************)
(* C19 as stated: no two consecutive messages of the History have the same *)
(* sender.                                                                 *)
(***************************************************************************)
C19_Alternates ==
    \A i \in 1..(Len(messages) - 1) :
        messages[i].sender # messages[i + 1].sender

(***************************************************************************)
(* C19, amended: from the last introduction on, no two consecutive         *)
(* messages of the History have the same sender; the introductions         *)
(* themselves are three companion messages in a row.                       *)
(***************************************************************************)
C19_AlternatesAfterIntro ==
    /\ \A i \in 1..Len(BOT_INTRO) : messages[i].sender = "companion"
    /\ \A i \in Len(BOT_INTRO)..(Len(messages) - 1) :
          messages[i].sender # messages[i + 1].sender

\* two exchanges after the introductions
C19_Witness ==
    /\ Len(messages) = Len(BOT_INTRO) + 4
    /\ completed = 2
    /\ messages[Len(BOT_INTRO) + 1].sender = "user"
    /\ messages[Len(BOT_INTRO) + 2].sender = "companion"

=============================================================================
